---- MODULE Spec2Model ----
(***************************************************************************)
(* Training orchestration of AudioStyleNet: the GAN solver                 *)
(* (solver_gan_old.py, class GANSolver) and the audio-to-latent solver     *)
(* (train_audio_to_image.py, class Solver).                                *)
(*                                                                         *)
(* Each solver object is one record-valued variable whose fields are the   *)
(* attributes of the Python object plus the position of the running        *)
(* method (pc).  Fields whose name starts with "h_" are history (ghost)    *)
(* fields: they record what happened and are never read by the program.    *)
(* Floating point scalars are exact rationals <<numerator, denominator>>.  *)
(***************************************************************************)
EXTENDS Integers, Sequences, FiniteSets, TLC

VARIABLES gan, solver

vars == <<gan, solver>>

(***************************************************************************)
(* Bounds of the model.                                                    *)
(***************************************************************************)
MaxEpochs == 2
MaxBatches == 2

\* per-iteration scalar losses (loss.item()) and gradient L2 norms
LossVals == {1, 2}
NormVals == {1, 3}

(***************************************************************************)
(* Rationals.                                                              *)
(***************************************************************************)
Rat(n, d) == <<n, d>>
RatAdd(r, v) == <<r[1] + v * r[2], r[2]>>
RatDiv(r, n) == <<r[1], r[2] * n>>
RatEq(r, s) == r[1] * s[2] = s[1] * r[2]
RatLe(r, s) == r[1] * s[2] <= s[1] * r[2]
RatLt(r, s) == r[1] * s[2] < s[1] * r[2]

(***************************************************************************)
(* GANSolver                                                               *)
(***************************************************************************)
model_names == <<"generator", "discriminator", "classifier">>

epoch_metric_names ==
    <<"epoch_loss_D_total", "epoch_loss_D_fake", "epoch_loss_D_real",
      "epoch_loss_G_emotion", "epoch_loss_G_pixel", "epoch_loss_G_GAN",
      "epoch_acc_G_", "epoch_acc_D_real", "epoch_acc_D_fake",
      "epoch_maxNorm_D", "epoch_maxNorm_G">>

LossNames == {"loss_D_real", "loss_D_fake", "loss_D_total", "loss_G_GAN", "loss_G_total"}

MetricNames == {epoch_metric_names[i] : i \in 1..Len(epoch_metric_names)}

\* optimize_parameters with optimizer_D.step moved between the two backward calls
optimize_parameters_step_between ==
    <<"forward",
      "optimizer_D.zero_grad", "backward_D", "loss_D_real.backward",
      "optimizer_D.step", "loss_D_fake.backward", "max_grad_norm_D",
      "optimizer_G.zero_grad", "backward_G", "loss_G_total.backward",
      "max_grad_norm_G", "optimizer_G.step">>

\* The statements of optimize_parameters, in program order.
optimize_parameters ==
    <<"forward",
      "optimizer_D.zero_grad", "backward_D", "loss_D_real.backward",
      "loss_D_fake.backward", "max_grad_norm_D", "optimizer_D.step",
      "optimizer_G.zero_grad", "backward_G", "loss_G_total.backward",
      "max_grad_norm_G", "optimizer_G.step">>

\* backward_reaches with the fake batch not detached in backward_D
backward_reaches_no_detach(loss) ==
    CASE loss = "loss_D_real" -> {"discriminator"}
      [] loss = "loss_D_fake" -> {"generator", "discriminator"}
      [] loss = "loss_G_total" -> {"generator", "discriminator"}

\* The networks whose parameters a backward call of the loss reaches: the
\* discriminator losses are computed on real_B (data) and on fake_B.detach(),
\* the generator loss on discriminator(fake_B) with fake_B = generator(real_A).
backward_reaches(loss) ==
    CASE loss = "loss_D_real" -> {"discriminator"}
      [] loss = "loss_D_fake" -> {"discriminator"}
      [] loss = "loss_G_total" -> {"generator", "discriminator"}

\* _zero_running_metrics that leaves the sums of the last epoch in place
_zero_running_metrics_skipped(metrics) == metrics

\* the attributes every metric gets from _zero_running_metrics
_zero_running_metrics(metrics) ==
    [name \in MetricNames |-> Rat(0, 1)]

_mean_running_metrics(metrics, len_loader) ==
    [name \in MetricNames |-> RatDiv(metrics[name], len_loader)]

_get_max_grad_norm(norm, current_max) ==
    IF RatLt(current_max, Rat(norm, 1)) THEN Rat(norm, 1) ELSE current_max

\* a file name that carries the epoch
save_filename_epoch(name) == name \o "_" \o ToString(gan.i_epoch) \o ".pt"

save_filename(name) == name \o ".pt"

\* GANSolver.save: one torch.save per model name into save_dir (and its
\* mirror in wandb.run.dir); files maps a file name to the list of the
\* global steps whose weights were written to it, oldest first.
save(files, step) ==
    [f \in DOMAIN files \cup {save_filename(model_names[i]) : i \in 1..Len(model_names)} |->
        IF f \in {save_filename(model_names[i]) : i \in 1..Len(model_names)}
        THEN (IF f \in DOMAIN files THEN files[f] ELSE <<>>) \o <<step>>
        ELSE files[f]]

GanOff ==
    [pc |-> "off", num_epochs |-> 0, len_loader |-> 0, log_run |-> FALSE,
     global_step |-> 0, i_epoch |-> 0, batch |-> 0, op |-> 0,
     epoch_metric |-> [name \in MetricNames |-> Rat(0, 1)],
     grad |-> [net \in {"generator", "discriminator"} |-> {}],
     loss |-> [l \in LossNames |-> 0],
     files |-> <<>>,
     h_applied |-> [net \in {"generator", "discriminator"} |-> {}],
     h_tb |-> 0,
     h_trace |-> <<>>, h_calls |-> 0, h_steps_D |-> 0, h_steps_G |-> 0,
     h_sum |-> [name \in MetricNames |-> 0], h_max |-> [name \in MetricNames |-> 0],
     h_iters |-> 0, h_saves |-> 0]

\* GANSolver.__init__ followed by the call of train_model
InitGAN ==
    /\ solver = [pc |-> "off"]
    /\ \E ne \in 1..MaxEpochs, n \in 1..MaxBatches, lr \in BOOLEAN :
          gan = [GanOff EXCEPT !.pc = "train_model", !.num_epochs = ne,
                               !.len_loader = n, !.log_run = lr]

\* def train_model: t_start is taken and the epoch loop is entered
TrainModel ==
    /\ gan.pc = "train_model"
    /\ gan' = [gan EXCEPT !.pc = "epoch", !.i_epoch = 1]
    /\ UNCHANGED solver

\* for i_epoch in range(1, num_epochs + 1): self._zero_running_metrics()
EpochBegin ==
    /\ gan.pc = "epoch"
    /\ gan.i_epoch <= gan.num_epochs
    /\ gan' = [gan EXCEPT !.pc = "loader", !.batch = 0,
                          !.epoch_metric = _zero_running_metrics(gan.epoch_metric),
                          !.h_sum = [name \in MetricNames |-> 0],
                          !.h_max = [name \in MetricNames |-> 0],
                          !.h_iters = 0]
    /\ UNCHANGED solver

\* for batch in data_loaders['train']: global_step += 1; set_inputs(batch)
NextBatch ==
    /\ gan.pc = "loader"
    /\ gan.batch < gan.len_loader
    /\ gan' = [gan EXCEPT !.pc = "optimize", !.op = 1, !.batch = @ + 1,
                          !.global_step = @ + 1, !.h_trace = <<>>]
    /\ UNCHANGED solver

\* the record after statement number g.op of optimize_parameters has run
Advance(g) ==
    LET h == [g EXCEPT !.h_trace = Append(@, optimize_parameters[g.op])]
    IN  IF g.op = Len(optimize_parameters)
        THEN [h EXCEPT !.pc = "log_tensorboard", !.op = 0, !.h_calls = @ + 1,
                       !.h_iters = @ + 1]
        ELSE [h EXCEPT !.op = @ + 1]

At(stmt) == gan.pc = "optimize" /\ optimize_parameters[gan.op] = stmt

\* loss.backward(): the gradient of the loss is accumulated into .grad of
\* every parameter the loss depends on
backward(g, loss) ==
    [g EXCEPT !.grad = [net \in DOMAIN @ |->
        IF net \in backward_reaches(loss)
        THEN @[net] \cup {[loss |-> loss, step |-> g.global_step]}
        ELSE @[net]]]

\* zero_grad that leaves the accumulated gradients in place
zero_grad_skipped(g, net) == g

\* optimizer.zero_grad() clears .grad of the parameters of the optimizer
zero_grad(g, net) == [g EXCEPT !.grad[net] = {}]

\* optimizer.step() applies what .grad of its parameters holds
step(g, net) == [g EXCEPT !.h_applied[net] = g.grad[net]]

Forward ==
    /\ At("forward")
    /\ gan' = Advance(gan)
    /\ UNCHANGED solver

ZeroGradD ==
    /\ At("optimizer_D.zero_grad")
    /\ gan' = Advance(zero_grad(gan, "discriminator"))
    /\ UNCHANGED solver

\* backward_D up to the two backward calls: the losses and the epoch sums
BackwardD ==
    /\ At("backward_D")
    /\ \E real \in LossVals, fake \in LossVals :
          gan' = Advance([gan EXCEPT
                    !.loss["loss_D_real"] = real,
                    !.loss["loss_D_fake"] = fake,
                    !.loss["loss_D_total"] = fake + real,
                    !.epoch_metric["epoch_loss_D_real"] = RatAdd(@, real),
                    !.epoch_metric["epoch_loss_D_fake"] = RatAdd(@, fake),
                    !.epoch_metric["epoch_loss_D_total"] = RatAdd(@, fake + real),
                    !.h_sum["epoch_loss_D_real"] = @ + real,
                    !.h_sum["epoch_loss_D_fake"] = @ + fake,
                    !.h_sum["epoch_loss_D_total"] = @ + fake + real])
    /\ UNCHANGED solver

BackwardDReal ==
    /\ At("loss_D_real.backward")
    /\ gan' = Advance(backward(gan, "loss_D_real"))
    /\ UNCHANGED solver

BackwardDFake ==
    /\ At("loss_D_fake.backward")
    /\ gan' = Advance(backward(gan, "loss_D_fake"))
    /\ UNCHANGED solver

Max(a, b) == IF a > b THEN a ELSE b

MaxGradNormD ==
    /\ At("max_grad_norm_D")
    /\ \E norm \in NormVals :
          gan' = Advance([gan EXCEPT
                    !.epoch_metric["epoch_maxNorm_D"] = _get_max_grad_norm(norm, @),
                    !.h_max["epoch_maxNorm_D"] = Max(@, norm)])
    /\ UNCHANGED solver

StepD ==
    /\ At("optimizer_D.step")
    /\ gan' = Advance([step(gan, "discriminator") EXCEPT !.h_steps_D = @ + 1])
    /\ UNCHANGED solver

ZeroGradG ==
    /\ At("optimizer_G.zero_grad")
    /\ gan' = Advance(zero_grad(gan, "generator"))
    /\ UNCHANGED solver

\* backward_G up to the backward call
BackwardG ==
    /\ At("backward_G")
    /\ \E l \in LossVals :
          gan' = Advance([gan EXCEPT
                    !.loss["loss_G_GAN"] = l,
                    !.loss["loss_G_total"] = l,
                    !.epoch_metric["epoch_loss_G_GAN"] = RatAdd(@, l),
                    !.h_sum["epoch_loss_G_GAN"] = @ + l])
    /\ UNCHANGED solver

BackwardGTotal ==
    /\ At("loss_G_total.backward")
    /\ gan' = Advance(backward(gan, "loss_G_total"))
    /\ UNCHANGED solver

MaxGradNormG ==
    /\ At("max_grad_norm_G")
    /\ \E norm \in NormVals :
          gan' = Advance([gan EXCEPT
                    !.epoch_metric["epoch_maxNorm_G"] = _get_max_grad_norm(norm, @),
                    !.h_max["epoch_maxNorm_G"] = Max(@, norm)])
    /\ UNCHANGED solver

StepG ==
    /\ At("optimizer_G.step")
    /\ gan' = Advance([step(gan, "generator") EXCEPT !.h_steps_G = @ + 1])
    /\ UNCHANGED solver

\* if self.config.log_run: self.log_tensorboard()
LogTensorboard ==
    /\ gan.pc = "log_tensorboard"
    /\ gan' = [gan EXCEPT !.pc = "loader",
                          !.h_tb = IF gan.log_run THEN @ + 1 ELSE @]
    /\ UNCHANGED solver

\* the loader is exhausted: self._mean_running_metrics(len(data_loaders['train']))
EpochEnd ==
    /\ gan.pc = "loader"
    /\ gan.batch = gan.len_loader
    /\ gan' = [gan EXCEPT !.pc = "log_console",
                  !.epoch_metric = _mean_running_metrics(@, gan.len_loader)]
    /\ UNCHANGED solver

\* self.log_console(i_epoch) prints the epoch metrics
LogConsole ==
    /\ gan.pc = "log_console"
    /\ gan' = IF gan.log_run
              THEN [gan EXCEPT !.pc = "sample_images"]
              ELSE [gan EXCEPT !.pc = "epoch", !.i_epoch = @ + 1]
    /\ UNCHANGED solver

\* sample_images, os.makedirs, writer.add_image, save_image: train_model
\* calls them with no try/except, so an exception raised by any of them
\* (an empty validation loader, an unwritable images directory) leaves
\* train_model
SampleImages ==
    /\ gan.pc = "sample_images"
    /\ \E failed \in BOOLEAN :
          gan' = [gan EXCEPT !.pc = IF failed THEN "raised" ELSE "save"]
    /\ UNCHANGED solver

\* the save that ends an epoch
SaveEpoch ==
    /\ gan.pc = "save"
    /\ gan' = [gan EXCEPT !.pc = "epoch", !.i_epoch = @ + 1,
                          !.files = save(@, gan.global_step),
                          !.h_saves = @ + 1]
    /\ UNCHANGED solver

\* the epoch loop is over
TrainingComplete ==
    /\ gan.pc = "epoch"
    /\ gan.i_epoch > gan.num_epochs
    /\ gan' = [gan EXCEPT !.pc = IF gan.log_run THEN "final_save" ELSE "done"]
    /\ UNCHANGED solver

FinalSave ==
    /\ gan.pc = "final_save"
    /\ gan' = [gan EXCEPT !.pc = "eval_model",
                          !.files = save(@, gan.global_step),
                          !.h_saves = @ + 1]
    /\ UNCHANGED solver

EvalModel ==
    /\ gan.pc = "eval_model"
    /\ gan' = [gan EXCEPT !.pc = "done"]
    /\ UNCHANGED solver

NextGAN ==
    \/ TrainModel \/ EpochBegin \/ NextBatch
    \/ Forward \/ ZeroGradD \/ BackwardD \/ BackwardDReal \/ BackwardDFake
    \/ MaxGradNormD \/ StepD
    \/ ZeroGradG \/ BackwardG \/ BackwardGTotal \/ MaxGradNormG \/ StepG
    \/ LogTensorboard \/ EpochEnd \/ LogConsole \/ SampleImages \/ SaveEpoch
    \/ TrainingComplete \/ FinalSave \/ EvalModel


(***************************************************************************)
(* Solver (audio to latent)                                                *)
(*                                                                         *)
(* Strings that the program formats or parses are sequences of one         *)
(* character strings.                                                      *)
(***************************************************************************)
MaxIters == 3
MaxStartStep == 2
MaxCkptStep == 30
MaxGrid == 20
MaxEvery == 2

\* values of --lr (argparse type=int)
Lrs == {1, 3}

Digits == <<"0", "1", "2", "3", "4", "5", "6", "7", "8", "9">>

\* str(n) of an int n >= 0, as the f-string formats global_step
RECURSIVE str(_)
str(n) == IF n < 10 THEN <<Digits[n + 1]>>
          ELSE str(n \div 10) \o <<Digits[(n % 10) + 1]>>

DigitValue(c) == CHOOSE d \in 0..9 : Digits[d + 1] = c

IsDigit(c) == \E d \in 1..10 : Digits[d] = c

\* int(s); -1 stands for the ValueError of a string that is no decimal number
RECURSIVE int(_)
int(s) ==
    IF s = <<>> \/ \E i \in 1..Len(s) : ~IsDigit(s[i]) THEN -1
    ELSE IF Len(s) = 1 THEN DigitValue(s[1])
    ELSE 10 * int(SubSeq(s, 1, Len(s) - 1)) + DigitValue(s[Len(s)])

\* the least index at which sep occurs in s, 0 if it does not occur
Find(s, sep) ==
    LET hits == {i \in 1..(Len(s) - Len(sep) + 1) : SubSeq(s, i, i + Len(sep) - 1) = sep}
    IN  IF hits = {} THEN 0 ELSE CHOOSE i \in hits : \A j \in hits : i <= j

\* s.split(sep)
RECURSIVE split(_, _)
split(s, sep) ==
    LET i == Find(s, sep)
    IN  IF i = 0 THEN <<s>>
        ELSE <<SubSeq(s, 1, i - 1)>> \o split(SubSeq(s, i + Len(sep), Len(s)), sep)

\* sep.join(parts)
RECURSIVE join(_, _)
join(parts, sep) ==
    IF parts = <<>> THEN <<>>
    ELSE IF Len(parts) = 1 THEN parts[1]
    ELSE parts[1] \o sep \o join(Tail(parts), sep)

Last(seq) == seq[Len(seq)]

\* a file name without the step
save_path_no_step(save_dir, global_step) ==
    save_dir \o <<"m", "o", "d", "e", "l", "s", "/", "m", "o", "d", "e", "l">>
             \o <<".", "p", "t">>

\* f"{self.args.save_dir}models/model{self.global_step}.pt"
save_path(save_dir, global_step) ==
    save_dir \o <<"m", "o", "d", "e", "l", "s", "/", "m", "o", "d", "e", "l">>
             \o str(global_step) \o <<".", "p", "t">>

\* the parse with the extension cut off the whole path
step_of_path_dot_first(path) ==
    int(Last(split(Last(split(split(path, <<".">>)[1], <<"/">>)),
                   <<"m", "o", "d", "e", "l">>)))

\* int(path.split('/')[-1].split('.')[0].split('model')[-1])
step_of_path(path) ==
    int(Last(split(split(Last(split(path, <<"/">>)), <<".">>)[1],
                   <<"m", "o", "d", "e", "l">>)))

\* '/'.join(args.model_path.split('/')[:-2]) + '/'
dir_of_path(path) ==
    LET parts == split(path, <<"/">>)
    IN  join(SubSeq(parts, 1, Len(parts) - 2), <<"/">>) \o <<"/">>

\* args.save_dir once main has appended the '/' and the timestamp
SaveDirs ==
    { <<"s", "/", "T", "/">>,
      <<".", "/", "m", "o", "d", "e", "l", ".", "1", "/", "T", "/">> }

lr_rampdown_length_half == Rat(5, 10)

lr_rampdown_length == Rat(4, 10)
lr_rampup_length == Rat(1, 10)

RECURSIVE GCD(_, _)
GCD(a, b) == IF b = 0 THEN a ELSE GCD(b, a % b)

Abs(a) == IF a < 0 THEN -a ELSE a

RatNorm(r) ==
    LET g == GCD(Abs(r[1]), Abs(r[2]))
    IN  IF g = 0 THEN r ELSE <<r[1] \div g, r[2] \div g>>

RatMul(r, s) == RatNorm(<<r[1] * s[1], r[2] * s[2]>>)
RatQuot(r, s) == RatNorm(<<r[1] * s[2], r[2] * s[1]>>)
RatSub(r, s) == RatNorm(<<r[1] * s[2] - s[1] * r[2], r[2] * s[2]>>)
RatMin(r, s) == IF RatLe(r, s) THEN r ELSE s

\* 1000 * cos(j * pi / 8), j = 0..8, rounded
CosTable == <<1000, 924, 707, 383, 0, -383, -707, -924, -1000>>

\* np.cos(x * np.pi): x is brought into [0, 1] (cos is even and has period
\* 2 pi), then the table is interpolated linearly; the result is exact at
\* x = 0 and x = 1, as np.cos is in double precision at 0 and at np.pi
cos_pi(x) ==
    LET m == Abs(x[1]) % (2 * x[2])
        n == IF m > x[2] THEN 2 * x[2] - m ELSE m
        j == (8 * n) \div x[2]
    IN  IF j >= 8 THEN Rat(CosTable[9], 1000)
        ELSE RatNorm(<<CosTable[j + 1] * x[2]
                        + (CosTable[j + 2] - CosTable[j + 1]) * (8 * n - j * x[2]),
                       1000 * x[2]>>)

\* the value update_lr(t) gives self.lr
lr_of(initial_lr, t) ==
    LET ramp1 == RatMin(Rat(1, 1), RatQuot(RatSub(Rat(1, 1), t), lr_rampdown_length))
        ramp2 == RatSub(Rat(1, 2), RatMul(Rat(1, 2), cos_pi(ramp1)))
        ramp3 == RatMul(ramp2, RatMin(Rat(1, 1), RatQuot(t, lr_rampup_length)))
    IN  RatMul(Rat(initial_lr, 1), ramp3)

\* Solver.update_lr: self.lr = ...; self.opt.param_groups[0]['lr'] = self.lr
update_lr(s, t) ==
    LET new == [s EXCEPT !.lr = lr_of(s.initial_lr, t)]
    IN  [new EXCEPT !.opt_lr = new.lr, !.t = t]

None == <<>>

\* the test sentence directory holds one .npy file per audio frame
AudioFiles == {<<"0", "1">>, <<"0", "2">>, <<"1", "0">>}

\* the process after main has parsed and corrected its arguments
\* (mode: "fresh", "cont" for --cont, "test" for --test); files are the
\* checkpoints on disk, model_path is one of them and was written at step h_ckpt
Launched(mode, debug, save_dir, model_path, files, h_ckpt, lr, n_iters, cadence, len_loader) ==
    [pc |-> "new",
     args |-> [debug |-> debug, test |-> mode = "test", cont |-> mode = "cont",
               model_path |-> IF mode = "fresh" THEN None ELSE model_path,
               save_dir |-> IF mode = "fresh" THEN save_dir ELSE dir_of_path(model_path),
               lr |-> lr,
               log_train_every |-> cadence[1], log_val_every |-> cadence[2],
               save_every |-> cadence[3], eval_every |-> cadence[4]],
     n_iters |-> n_iters, len_loader |-> len_loader,
     initial_lr |-> 0, lr |-> Rat(0, 1), opt_lr |-> Rat(0, 1), t |-> Rat(0, 1),
     global_step |-> 0, step_start |-> 0, i_iter |-> 0, batch |-> 0,
     writer |-> FALSE,
     \* whether the directory <save_dir>models/ exists
     models_dir |-> mode # "fresh",
     files |-> files,
     frames |-> <<>>,
     h_ckpt |-> IF mode = "fresh" THEN 0 ELSE h_ckpt,
     h_saved |-> <<>>, h_log_train |-> {}, h_log_val |-> {}, h_save |-> {},
     h_eval |-> {}, h_opt_steps |-> 0, h_lr_updates |-> 0, h_step_t |-> Rat(0, 1)]

TrainDir == CHOOSE d \in SaveDirs : Len(d) = 4

InitAudio ==
    /\ gan = GanOff
    /\ \E mode \in {"fresh", "cont", "test"}, debug \in BOOLEAN, ckpt \in 0..MaxStartStep,
          lr \in Lrs, n_iters \in 0..MaxIters, len_loader \in 1..MaxBatches,
          cadence \in [1..4 -> 1..MaxEvery] :
          /\ mode = "fresh" => ckpt = 0
          /\ solver = Launched(mode, debug, TrainDir, save_path(TrainDir, ckpt),
                               IF mode = "fresh" THEN {} ELSE {save_path(TrainDir, ckpt)},
                               ckpt, lr, n_iters, cadence, len_loader)

\* the exception of a failed statement ends the process
raise(s) == [s EXCEPT !.pc = "raised"]

\* Solver.__init__ applied to the launched process s
constructed(s) ==
    LET a == s.args
        s1 == [s EXCEPT !.initial_lr = a.lr, !.lr = Rat(a.lr, 1),
                        !.global_step = 0, !.step_start = 0]
        resumed == a.cont \/ a.test
        s2 == IF resumed
              THEN [s1 EXCEPT !.global_step = step_of_path(a.model_path),
                              !.step_start = step_of_path(a.model_path)]
              ELSE s1
        s3 == [s2 EXCEPT !.opt_lr = Rat(s2.initial_lr, 1)]
        s4 == IF ~a.debug /\ ~a.test
              THEN [s3 EXCEPT !.writer = TRUE, !.models_dir = TRUE]
              ELSE s3
    IN  IF resumed /\ (a.model_path \notin s.files \/ step_of_path(a.model_path) < 0)
        THEN raise(s1)
        ELSE s4

\* solver = Solver(args), and main's choice between test_model and train
SolverInit ==
    /\ solver.pc = "new"
    /\ solver' = LET s == constructed(solver)
                 IN  IF s.pc = "raised" THEN s
                     ELSE [s EXCEPT !.pc = IF s.args.test THEN "test_model" ELSE "train"]
    /\ UNCHANGED gan

\* Solver.save: torch.save fails when <save_dir>models/ does not exist
save_audio(s) ==
    IF ~s.models_dir THEN raise(s)
    ELSE [s EXCEPT !.files = @ \cup {save_path(s.args.save_dir, s.global_step)},
                   !.h_saved = Append(@, save_path(s.args.save_dir, s.global_step))]

\* a cadence of N fires when global_step % N == 0
fires(global_step, every) == global_step % every = 0

\* def train: i_iter = 0
Train ==
    /\ solver.pc = "train"
    /\ solver' = [solver EXCEPT !.pc = "while", !.i_iter = 0]
    /\ UNCHANGED gan

\* while i_iter < n_iters: a new pass over data_loaders['train'] begins
While ==
    /\ solver.pc = "while"
    /\ solver' = IF solver.i_iter < solver.n_iters
                 THEN [solver EXCEPT !.pc = "for", !.batch = 0]
                 ELSE [solver EXCEPT !.pc = "final_save"]
    /\ UNCHANGED gan

\* for batch in data_loaders['train']
For ==
    /\ solver.pc = "for"
    /\ solver' = IF solver.batch < solver.len_loader
                 THEN [solver EXCEPT !.pc = "update_lr", !.batch = @ + 1]
                 ELSE [solver EXCEPT !.pc = "while"]
    /\ UNCHANGED gan

\* a progress fraction taken from the global step counter
progress_global_step(s) == Rat(s.global_step, s.n_iters)

\* t = i_iter / n_iters
progress(s) == Rat(s.i_iter, s.n_iters)

\* self.update_lr(t)
UpdateLr ==
    /\ solver.pc = "update_lr"
    /\ solver' = [update_lr(solver, progress(solver))
                    EXCEPT !.pc = "opt_step", !.h_lr_updates = @ + 1]
    /\ UNCHANGED gan

\* encode, decode, loss; opt.zero_grad(); loss.backward(); opt.step()
OptStep ==
    /\ solver.pc = "opt_step"
    /\ solver' = [solver EXCEPT !.pc = "count", !.h_opt_steps = @ + 1,
                                !.h_step_t = solver.t]
    /\ UNCHANGED gan

\* a counter that advances once per pass over the loader
Count_PerPass ==
    /\ solver.pc = "count"
    /\ solver' = [solver EXCEPT !.global_step = IF solver.batch = 1 THEN @ + 1 ELSE @,
                    !.i_iter = @ + 1,
                    !.pc = IF solver.args.debug THEN "break" ELSE "log_train"]
    /\ UNCHANGED gan

\* self.global_step += 1; i_iter += 1
Count ==
    /\ solver.pc = "count"
    /\ solver' = [solver EXCEPT !.global_step = @ + 1, !.i_iter = @ + 1,
                    !.pc = IF solver.args.debug THEN "break" ELSE "log_train"]
    /\ UNCHANGED gan

LogTrain ==
    /\ solver.pc = "log_train"
    /\ solver' = [solver EXCEPT !.pc = "log_val",
                    !.h_log_train = IF fires(solver.global_step, solver.args.log_train_every)
                                    THEN @ \cup {solver.global_step} ELSE @]
    /\ UNCHANGED gan

LogVal ==
    /\ solver.pc = "log_val"
    /\ solver' = [solver EXCEPT !.pc = "save_every",
                    !.h_log_val = IF fires(solver.global_step, solver.args.log_val_every)
                                  THEN @ \cup {solver.global_step} ELSE @]
    /\ UNCHANGED gan

\* the save chained to the validation test by elif
SaveEvery_Elif ==
    /\ solver.pc = "save_every"
    /\ solver' = IF /\ ~fires(solver.global_step, solver.args.log_val_every)
                    /\ fires(solver.global_step, solver.args.save_every)
                 THEN LET s == save_audio(solver)
                      IN  IF s.pc = "raised" THEN s
                          ELSE [s EXCEPT !.pc = "eval_every",
                                         !.h_save = @ \cup {solver.global_step}]
                 ELSE [solver EXCEPT !.pc = "eval_every"]
    /\ UNCHANGED gan

SaveEvery ==
    /\ solver.pc = "save_every"
    /\ solver' = IF fires(solver.global_step, solver.args.save_every)
                 THEN LET s == save_audio(solver)
                      IN  IF s.pc = "raised" THEN s
                          ELSE [s EXCEPT !.pc = "eval_every",
                                         !.h_save = @ \cup {solver.global_step}]
                 ELSE [solver EXCEPT !.pc = "eval_every"]
    /\ UNCHANGED gan

EvalEvery ==
    /\ solver.pc = "eval_every"
    /\ solver' = [solver EXCEPT !.pc = "break",
                    !.h_eval = IF fires(solver.global_step, solver.args.eval_every)
                               THEN @ \cup {solver.global_step} ELSE @]
    /\ UNCHANGED gan

\* if i_iter == n_iters: break
Break ==
    /\ solver.pc = "break"
    /\ solver' = [solver EXCEPT !.pc = IF solver.i_iter = solver.n_iters
                                       THEN "while" ELSE "for"]
    /\ UNCHANGED gan

\* the self.save() after the loop
FinalSaveAudio ==
    /\ solver.pc = "final_save"
    /\ solver' = LET s == save_audio(solver)
                 IN  IF s.pc = "raised" THEN s ELSE [s EXCEPT !.pc = "done"]
    /\ UNCHANGED gan

\* the sequences that hold every element of S once
Perms(S) == {q \in [1..Cardinality(S) -> S] : \A x \in S : \E i \in DOMAIN q : q[i] = x}

\* Solver.test_model: glob lists the files in the order of the directory;
\* frame i is rendered from the i-th listed file
TestModel ==
    /\ solver.pc = "test_model"
    /\ \E listing \in Perms(AudioFiles) :
          solver' = [solver EXCEPT !.pc = "done", !.frames = listing]
    /\ UNCHANGED gan

\* a run of train that is at one of its saves, with global_step = s
InitResume ==
    /\ gan = GanOff
    /\ \E d \in SaveDirs, s \in 0..MaxCkptStep, lr \in Lrs :
          solver = [constructed(Launched("fresh", FALSE, d, None, {}, 0, lr, 0,
                                         [i \in 1..4 |-> 1], 1))
                      EXCEPT !.pc = "checkpoint", !.global_step = s]

\* self.save(), after which the run is over
Checkpoint ==
    /\ solver.pc = "checkpoint"
    /\ solver' = LET s == save_audio(solver)
                 IN  IF s.pc = "raised" THEN s
                     ELSE [s EXCEPT !.pc = "exited", !.h_ckpt = solver.global_step]
    /\ UNCHANGED gan

\* main is started again: fresh in a new timestamped directory, or with
\* --cont or --test and the checkpoint as --model_path
Relaunch ==
    /\ solver.pc = "exited"
    /\ \E mode \in {"fresh", "cont", "test"}, debug \in BOOLEAN,
          d \in SaveDirs \ {solver.args.save_dir} :
          solver' = Launched(mode, debug, d, Last(solver.h_saved), solver.files,
                             solver.h_ckpt, solver.args.lr, solver.n_iters,
                             [i \in 1..4 |-> 1], solver.len_loader)
    /\ UNCHANGED gan

NextResume == Checkpoint \/ Relaunch \/ SolverInit

\* update_lr is called with t = k / n on a constructed solver
InitLR ==
    /\ gan = GanOff
    /\ \E lr \in Lrs, n \in 1..MaxGrid, k \in 0..MaxGrid :
          /\ k < n
          /\ solver = [constructed(Launched("fresh", TRUE, TrainDir, None, {}, 0, lr, n,
                                           [i \in 1..4 |-> 1], 1))
                         EXCEPT !.pc = "call_update_lr", !.i_iter = k]

CallUpdateLr ==
    /\ solver.pc = "call_update_lr"
    /\ solver' = [update_lr(solver, Rat(solver.i_iter, solver.n_iters))
                    EXCEPT !.pc = "returned"]
    /\ UNCHANGED gan

NextLR == CallUpdateLr

NextAudio ==
    \/ SolverInit \/ Train \/ While \/ For \/ UpdateLr \/ OptStep \/ Count
    \/ LogTrain \/ LogVal \/ SaveEvery \/ EvalEvery \/ Break \/ FinalSaveAudio
    \/ TestModel

(***************************************************************************)
(* Specifications.                                                         *)
(***************************************************************************)
Init == InitGAN \/ InitAudio

Next == NextGAN \/ NextAudio

\* either program
Spec == Init /\ [][Next]_vars

SpecGAN == InitGAN /\ [][NextGAN]_vars

SpecAudio == InitAudio /\ [][NextAudio]_vars

\* a checkpoint is written and the program is started again
SpecResume == InitResume /\ [][NextResume]_vars

\* the learning rate schedule alone
SpecLR == InitLR /\ [][NextLR]_vars



(***************************************************************************)
(* Properties of the GAN solver.                                           *)
(***************************************************************************)
IsPrefix(p, q) == Len(p) <= Len(q) /\ SubSeq(q, 1, Len(p)) = p

C1_Order ==
    <<"forward", "optimizer_D.zero_grad", "loss_D_real.backward",
      "loss_D_fake.backward", "optimizer_D.step", "optimizer_G.zero_grad",
      "loss_G_total.backward", "optimizer_G.step">>

C1_IsEvent(e) == \E i \in 1..Len(C1_Order) : C1_Order[i] = e

\* C1: every call of optimize_parameters performs generator forward,
\* discriminator zero_grad, the real then the fake discriminator backward, one
\* optimizer_D.step, generator zero_grad, generator backward and one
\* optimizer_G.step, in this order (no step between the two discriminator
\* backward calls); K calls make K discriminator and K generator steps.
C1_OptimizeOrder ==
    /\ IsPrefix(SelectSeq(gan.h_trace, C1_IsEvent), C1_Order)
    /\ (gan.pc # "optimize" /\ gan.h_calls > 0)
          => SelectSeq(gan.h_trace, C1_IsEvent) = C1_Order
    /\ gan.pc # "optimize"
          => gan.h_steps_D = gan.h_calls /\ gan.h_steps_G = gan.h_calls
    /\ gan.pc = "done" => gan.h_calls = gan.num_epochs * gan.len_loader

C1_Witness ==
    /\ gan.pc = "done"
    /\ gan.h_calls = 4
    /\ gan.h_steps_D = 4
    /\ gan.h_steps_G = 4

C2_Names == {"epoch_loss_D_real", "epoch_loss_D_fake", "epoch_loss_D_total",
             "epoch_loss_G_GAN"}

AfterEpoch == gan.pc \in {"log_console", "sample_images", "save"}

InEpoch == gan.pc \in {"loader", "optimize", "log_tensorboard"}

\* C2: each of the four accumulated epoch losses is, while the epoch runs, the
\* sum of the values of the iterations of this epoch so far (zero at its
\* start), and the value reported at the end of an epoch of N >= 1 batches is
\* that sum of the N values divided by N.
C2_EpochMean ==
    \A name \in C2_Names :
        /\ InEpoch => RatEq(gan.epoch_metric[name], Rat(gan.h_sum[name], 1))
                      /\ gan.epoch_metric[name][2] = 1
        /\ AfterEpoch => /\ gan.h_iters = gan.len_loader
                         /\ RatEq(gan.epoch_metric[name],
                                  Rat(gan.h_sum[name], gan.h_iters))
                         /\ gan.epoch_metric[name][2] = gan.len_loader

C2_Witness ==
    /\ gan.pc = "log_console"
    /\ gan.i_epoch = 2
    /\ gan.h_iters = 2
    /\ gan.h_sum["epoch_loss_D_real"] = 3
    /\ gan.epoch_metric["epoch_loss_D_real"] = Rat(3, 2)

\* C3: the two max-norm trackers are 0 at the start of every epoch and, at the
\* end of the epoch after the averaging step, each equals the maximum of the
\* gradient norms of the epoch (it is not divided by the iteration count).
C3_MaxNormKept ==
    \A name \in {"epoch_maxNorm_D", "epoch_maxNorm_G"} :
        /\ (gan.pc = "loader" /\ gan.batch = 0) => RatEq(gan.epoch_metric[name], Rat(0, 1))
        /\ AfterEpoch => RatEq(gan.epoch_metric[name], Rat(gan.h_max[name], 1))

\* C4 as stated: after optimizer_D.step and before the generator phase the
\* generator holds no gradient, in every iteration.
C4_GeneratorGradEmpty ==
    At("optimizer_G.zero_grad") => gan.grad["generator"] = {}

\* C4: the backward calls of the discriminator phase add nothing to the
\* generator's gradients; after optimizer_D.step and before the generator
\* phase these are empty in the first iteration and in every later iteration
\* hold exactly the gradient of the previous iteration's generator backward.
C4_DiscriminatorPhaseDetached ==
    /\ \A c \in gan.grad["generator"] : c.loss = "loss_G_total"
    /\ At("optimizer_G.zero_grad") =>
          gan.grad["generator"] =
             IF gan.global_step = 1 THEN {}
             ELSE {[loss |-> "loss_G_total", step |-> gan.global_step - 1]}

C4_Witness ==
    /\ At("optimizer_G.zero_grad")
    /\ gan.global_step = 2
    /\ gan.grad["generator"] = {[loss |-> "loss_G_total", step |-> 1]}

\* C10 as stated: no save overwrites a weight file written by an earlier save.
C10_NoOverwrite ==
    \A f \in DOMAIN gan.files : Len(gan.files[f]) <= 1

Min(a, b) == IF a < b THEN a ELSE b

\* C10: every save of a run writes the same three files generator.pt,
\* discriminator.pt and classifier.pt of the run's save_dir, so each save
\* after the first overwrites every weight file of the save before it; the
\* directory holds one file per model, with the weights of the latest save.
C10_SavesOverwrite ==
    /\ gan.h_saves = 0 => DOMAIN gan.files = {}
    /\ gan.h_saves > 0 =>
          /\ DOMAIN gan.files = {"generator.pt", "discriminator.pt", "classifier.pt"}
          /\ \A f \in DOMAIN gan.files :
                /\ Len(gan.files[f]) = gan.h_saves
                /\ \A i \in 1..gan.h_saves :
                      gan.files[f][i] = Min(i, gan.num_epochs) * gan.len_loader
    /\ gan.pc = "done" /\ gan.log_run => gan.h_saves = gan.num_epochs + 1

C10_Witness ==
    /\ gan.pc = "done"
    /\ gan.h_saves = 3
    /\ gan.files["generator.pt"] = <<2, 4, 4>>

(***************************************************************************)
(* Properties of the audio-to-latent solver, and of both solvers.          *)
(***************************************************************************)
Training == solver.pc \in {"train", "while", "for", "update_lr", "opt_step", "count",
                           "log_train", "log_val", "save_every", "eval_every",
                           "break", "final_save", "done", "raised"}

C5_Counted ==
    /\ gan.pc # "off" =>
          gan.global_step = gan.h_calls + (IF gan.pc = "optimize" THEN 1 ELSE 0)
    /\ Training =>
          solver.global_step =
             solver.step_start + solver.h_opt_steps - (IF solver.pc = "count" THEN 1 ELSE 0)

C5_Step ==
    /\ gan'.global_step \in {gan.global_step, gan.global_step + 1}
    /\ gan'.global_step # gan.global_step <=> (gan.pc = "loader" /\ gan'.pc = "optimize")
    /\ solver.pc \notin {"off", "new"} =>
          /\ solver'.global_step \in {solver.global_step, solver.global_step + 1}
          /\ solver'.global_step # solver.global_step <=> solver.pc = "count"

\* C5: in both solvers the global step counter never decreases, grows by
\* exactly 1 per optimization iteration and by nothing else (not by logging,
\* validation, evaluation, save or the end of an epoch); after K iterations
\* it is its initial value plus K.
C5_GlobalStep == [](C5_Counted) /\ [][C5_Step]_vars

C5_Witness ==
    /\ solver.pc = "done"
    /\ solver.step_start = 2
    /\ solver.h_opt_steps = 3
    /\ solver.global_step = 5
    /\ solver.len_loader = 2

\* C6 as stated: the progress fraction of every learning rate update is
\* global_step / n_iters and lies in [0, 1), on resumed runs too.
C6_ProgressFromGlobalStep ==
    solver.pc = "opt_step" =>
        /\ RatEq(solver.t, Rat(solver.global_step, solver.n_iters))
        /\ RatLe(Rat(0, 1), solver.t) /\ RatLt(solver.t, Rat(1, 1))

\* C6: before every optimizer step the learning rate is recomputed from the
\* progress fraction t = i_iter / n_iters, where i_iter = global_step -
\* step_start counts the iterations of this call of train; 0 <= t < 1. On a
\* resumed run t starts again at 0 (it is global_step / n_iters only when
\* the run started at step 0).
C6_ProgressFromIterations ==
    /\ solver.pc = "opt_step" =>
          /\ solver.h_lr_updates = solver.h_opt_steps + 1
          /\ solver.i_iter = solver.global_step - solver.step_start
          /\ RatEq(solver.t, Rat(solver.global_step - solver.step_start, solver.n_iters))
          /\ RatLe(Rat(0, 1), solver.t) /\ RatLt(solver.t, Rat(1, 1))
          /\ solver.lr = lr_of(solver.initial_lr, solver.t)
    /\ (Training /\ solver.h_opt_steps > 0) =>
          RatEq(solver.h_step_t, Rat(solver.h_opt_steps - 1, solver.n_iters))

C6_Witness ==
    /\ solver.pc = "opt_step"
    /\ solver.args.cont
    /\ solver.step_start = 2
    /\ solver.global_step = 3
    /\ solver.t = Rat(1, 3)

\* C7: update_lr sets the learning rate to 0 at t = 0, to exactly initial_lr
\* for 0.1 <= t <= 0.6 and to a value in [0, initial_lr] for every t in
\* [0, 1); the optimizer's parameter group gets the value of self.lr.
C7_Schedule ==
    solver.pc = "returned" =>
        /\ solver.opt_lr = solver.lr
        /\ RatEq(solver.t, Rat(0, 1)) => RatEq(solver.lr, Rat(0, 1))
        /\ (RatLe(Rat(1, 10), solver.t) /\ RatLe(solver.t, Rat(6, 10)))
              => RatEq(solver.lr, Rat(solver.initial_lr, 1))
        /\ RatLe(Rat(0, 1), solver.lr)
        /\ RatLe(solver.lr, Rat(solver.initial_lr, 1))

C7_Witness ==
    /\ solver.pc = "returned"
    /\ solver.t = Rat(2, 10)
    /\ solver.initial_lr = 3
    /\ solver.lr = Rat(3, 1)
    /\ solver.opt_lr = Rat(3, 1)

\* the test of the k-th cadence has been evaluated for global step g
Evaluated(g, k) ==
    /\ solver.step_start < g
    /\ \/ g < solver.global_step
       \/ /\ g = solver.global_step
          /\ \/ solver.pc \in {"break", "while", "for", "update_lr", "opt_step",
                               "final_save", "done"}
             \/ k <= 3 /\ solver.pc = "eval_every"
             \/ k <= 2 /\ solver.pc = "save_every"
             \/ k <= 1 /\ solver.pc = "log_val"

\* C8: with debug off, train-loss logging, validation, the cadence-gated save
\* and the image evaluation each happen at the global step g of an iteration
\* if and only if g is divisible by their own cadence, whatever the other
\* three do.
C8_Cadences ==
    (Training /\ ~solver.args.debug) =>
        \A g \in 1..(solver.global_step) :
            /\ Evaluated(g, 1) => (g \in solver.h_log_train <=> g % solver.args.log_train_every = 0)
            /\ Evaluated(g, 2) => (g \in solver.h_log_val <=> g % solver.args.log_val_every = 0)
            /\ Evaluated(g, 3) => (g \in solver.h_save <=> g % solver.args.save_every = 0)
            /\ Evaluated(g, 4) => (g \in solver.h_eval <=> g % solver.args.eval_every = 0)

C8_Witness ==
    /\ solver.pc = "break"
    /\ ~solver.args.debug
    /\ solver.global_step = 3
    /\ solver.h_log_train = {1, 2, 3}
    /\ solver.h_log_val = {2}
    /\ solver.h_save = {1, 2, 3}
    /\ solver.h_eval = {2}

\* C9: a Solver constructed with --cont or --test from the file that save
\* wrote at global step s has global_step = step_start = s; without --cont
\* and --test both are 0.
C9_ResumeRoundTrip ==
    /\ solver.pc # "raised"
    /\ solver.pc \in {"train", "test_model"} =>
          IF solver.args.cont \/ solver.args.test
          THEN /\ solver.args.model_path = save_path(solver.args.save_dir, solver.h_ckpt)
               /\ solver.global_step = solver.h_ckpt
               /\ solver.step_start = solver.h_ckpt
          ELSE solver.global_step = 0 /\ solver.step_start = 0

C9_Witness ==
    /\ solver.pc = "train"
    /\ solver.args.cont
    /\ solver.h_ckpt = 27
    /\ solver.global_step = 27
    /\ solver.step_start = 27
    /\ Len(solver.args.save_dir) > 4

\* train has returned
TrainReturned == solver.pc = "done" /\ ~solver.args.test

LexLt(a, b) ==
    \E k \in 1..(Len(a) + 1) :
        /\ k <= Len(b)
        /\ \A i \in 1..(k - 1) : a[i] = b[i]
        /\ k = Len(a) + 1 \/ DigitValue(a[k]) < DigitValue(b[k])

SortedByName(S) ==
    CHOOSE q \in Perms(S) : \A i, j \in DOMAIN q : i < j => LexLt(q[i], q[j])

\* C12: test_model renders the frame with index i from the i-th audio file in
\* sorted file-name order, whatever order the directory listing has.
C12_FramesInNameOrder ==
    (solver.pc = "done" /\ solver.args.test) =>
        solver.frames = SortedByName(AudioFiles)

\* C13: with logging enabled, a failure while producing the per-epoch sample
\* image never aborts training: every run ends with all epochs trained and
\* every epoch's checkpoint (and the final one) saved.
C13_SampleFailureTolerated ==
    (gan.log_run /\ gan.pc \in {"raised", "done"}) =>
        /\ gan.pc = "done"
        /\ gan.h_calls = gan.num_epochs * gan.len_loader
        /\ gan.h_saves = gan.num_epochs + 1

\* C14: for every n_iters >= 0, train never takes more than n_iters optimizer
\* steps, reaches the end of the loop after exactly n_iters of them with
\* global_step = step_start + n_iters, then performs the final save and
\* returns.
C14_ExactBudget ==
    (Training /\ ~solver.args.test) =>
        /\ solver.h_opt_steps <= solver.n_iters
        /\ solver.pc \in {"final_save", "done", "raised"} =>
              /\ solver.h_opt_steps = solver.n_iters
              /\ solver.global_step = solver.step_start + solver.n_iters
        /\ solver.pc # "raised"
        /\ TrainReturned =>
              /\ Len(solver.h_saved) >= 1
              /\ Last(solver.h_saved) = save_path(solver.args.save_dir, solver.global_step)

\* the contributions the backward calls of iteration k put into a network
OwnGradient(net, k) ==
    IF net = "discriminator"
    THEN {[loss |-> "loss_D_real", step |-> k], [loss |-> "loss_D_fake", step |-> k]}
    ELSE {[loss |-> "loss_G_total", step |-> k]}

\* the statements of the trace since the last occurrence of stmt
Since(trace, stmt) ==
    LET last == CHOOSE i \in DOMAIN trace :
                    /\ trace[i] = stmt
                    /\ \A j \in DOMAIN trace : j > i => trace[j] # stmt
    IN  SubSeq(trace, last + 1, Len(trace))

BackwardCalls(trace) ==
    SelectSeq(trace, LAMBDA x : x \in {"loss_D_real.backward", "loss_D_fake.backward",
                                       "loss_G_total.backward"})

\* C15: the generator backward of an iteration does leave its gradient in the
\* discriminator, and no optimizer_D.step applies it: between
\* optimizer_D.zero_grad and optimizer_D.step the only backward calls are the
\* two of the discriminator phase, and what the k-th optimizer_D.step applies
\* is the gradient of the two discriminator losses of iteration k; the k-th
\* optimizer_G.step applies the gradient of the generator loss of iteration k.
C15_StepsApplyOwnGradients ==
    /\ (At("optimizer_D.zero_grad") /\ gan.global_step > 1) =>
          [loss |-> "loss_G_total", step |-> gan.global_step - 1]
              \in gan.grad["discriminator"]
    /\ At("optimizer_D.step") =>
          /\ BackwardCalls(Since(gan.h_trace, "optimizer_D.zero_grad"))
                = <<"loss_D_real.backward", "loss_D_fake.backward">>
          /\ gan.grad["discriminator"] = OwnGradient("discriminator", gan.global_step)
    /\ At("optimizer_G.step") =>
          /\ BackwardCalls(Since(gan.h_trace, "optimizer_G.zero_grad"))
                = <<"loss_G_total.backward">>
          /\ gan.grad["generator"] = OwnGradient("generator", gan.global_step)
    /\ gan.h_steps_D > 0 =>
          gan.h_applied["discriminator"] = OwnGradient("discriminator", gan.h_steps_D)
    /\ gan.h_steps_G > 0 =>
          gan.h_applied["generator"] = OwnGradient("generator", gan.h_steps_G)

C15_Witness ==
    /\ At("optimizer_G.zero_grad")
    /\ gan.global_step = 2
    /\ gan.h_steps_D = 2
    /\ gan.h_applied["discriminator"] = OwnGradient("discriminator", 2)
    /\ gan.h_applied["generator"] = OwnGradient("generator", 1)

\* C16: with --debug, train performs no logging, validation, evaluation or
\* checkpoint save at any point of the run, the end of the loop included.
C16_DebugWritesNothing ==
    (Training /\ ~solver.args.test /\ solver.args.debug) =>
        /\ solver.h_log_train = {}
        /\ solver.h_log_val = {}
        /\ solver.h_eval = {}
        /\ solver.h_save = {}
        /\ solver.h_saved = <<>>
====
